---- MODULE Spec2Model ----
(***************************************************************************)
(* Model of src/outliner.py: the ChatOllama completion client and the      *)
(* Outliner transcript-to-outline pipeline.                                *)
(*                                                                         *)
(* Strings are TLA+ strings; str.join and the f-strings are computed with  *)
(* \o.  A transcript is a sequence of structural units (the pieces the     *)
(* markdown splitter cuts the text into); a unit carries its length in     *)
(* characters (Python len) and its length in cl100k_base tokens.           *)
(***************************************************************************)
EXTENDS Integers, Sequences, FiniteSets, TLC

\* ------------------------------------------------------------------ bounds
MaxCalls == 2      \* generate_response calls made on the one client
MaxUnits == 2      \* structural units in the transcript file

\* ------------------------------------------------------- program constants
chunk_size == 3000
chunk_overlap == 200
Sentinel == "Sorry, I couldn't generate a response."

\* --------------------------------------------------------------- inputs
\* user_input values handed to generate_response
Inputs == {"a", "b"}
\* texts the backend generates (response.generations[0][0].text)
Texts == {"- fact A\n- fact B"}
\* What self.ollama._generate([prompt]) does: returns a text, raises
\* (timeout, connection failure), or returns a result with no generation,
\* on which response.generations[0][0] raises IndexError.
Backends ==
    [mode : {"ok"}, text : Texts] \cup [mode : {"raise", "malformed"}, text : {""}]

\* Structural units of a transcript: short ASCII line, long ASCII paragraph,
\* paragraph of non-ASCII text (each character encodes to two BPE tokens).
Units ==
    { [text |-> "s", chars |-> 150,  tokens |-> 40],
      [text |-> "L", chars |-> 2000, tokens |-> 500],
      [text |-> "D", chars |-> 1400, tokens |-> 2800] }

RECURSIVE SeqsUpTo(_, _)
SeqsUpTo(S, n) ==
    IF n = 0 THEN {<<>>}
    ELSE LET shorter == SeqsUpTo(S, n - 1)
         IN  shorter \cup {Append(s, x) : s \in shorter, x \in S}

Transcripts == SeqsUpTo(Units, MaxUnits)

VARIABLES
    conversation_history,  \* ChatOllama.conversation_history
    requests,              \* prompts handed to self.ollama._generate, in order
    ncalls,                \* generate_response calls made so far
    lastCall,              \* what the latest generate_response call did
    raw_transcript,        \* Outliner.raw_transcript
    run                    \* what the latest full_transcript2outline_json did

vars == <<conversation_history, requests, ncalls, lastCall, raw_transcript, run>>

\* ------------------------------------------------------------ ChatOllama
\* str.join
RECURSIVE JoinStr(_, _)
JoinStr(sep, seq) ==
    IF seq = <<>> THEN ""
    ELSE IF Len(seq) = 1 THEN seq[1]
    ELSE seq[1] \o sep \o JoinStr(sep, Tail(seq))

add_to_history(hist, message) == Append(hist, message)

format_prompt(hist) == JoinStr(" ", hist)

\* A bug the try/except could have: only the backend's own raise is caught,
\* the IndexError of a malformed response propagates.
generate_response_Narrow(hist, user_input, backend) ==
    LET h1 == add_to_history(hist, "User: " \o user_input)
        prompt == format_prompt(h1)
    IN  IF backend.mode = "ok"
        THEN [history |-> add_to_history(h1, "Bot: " \o backend.text),
              prompt |-> prompt, ret |-> backend.text, raised |-> FALSE]
        ELSE IF backend.mode = "raise"
        THEN [history |-> h1, prompt |-> prompt, ret |-> Sentinel, raised |-> FALSE]
        ELSE [history |-> h1, prompt |-> prompt, ret |-> "", raised |-> TRUE]

\* A bug the except branch could have: the sentinel is recorded as a reply.
generate_response_LogSentinel(hist, user_input, backend) ==
    LET h1 == add_to_history(hist, "User: " \o user_input)
        prompt == format_prompt(h1)
    IN  IF backend.mode = "ok"
        THEN [history |-> add_to_history(h1, "Bot: " \o backend.text),
              prompt |-> prompt, ret |-> backend.text, raised |-> FALSE]
        ELSE [history |-> add_to_history(h1, "Bot: " \o Sentinel),
              prompt |-> prompt, ret |-> Sentinel, raised |-> FALSE]

\* A bug the except branch could have: the history is cleared on a failure.
generate_response_Reset(hist, user_input, backend) ==
    LET h1 == add_to_history(hist, "User: " \o user_input)
        prompt == format_prompt(h1)
    IN  IF backend.mode = "ok"
        THEN [history |-> add_to_history(h1, "Bot: " \o backend.text),
              prompt |-> prompt, ret |-> backend.text, raised |-> FALSE]
        ELSE [history |-> <<>>, prompt |-> prompt, ret |-> Sentinel, raised |-> FALSE]

\* ChatOllama.generate_response: the user turn is appended before the try;
\* the reply is appended only when the backend produced a text.
generate_response(hist, user_input, backend) ==
    LET h1 == add_to_history(hist, "User: " \o user_input)
        prompt == format_prompt(h1)
    IN  IF backend.mode = "ok"
        THEN [history |-> add_to_history(h1, "Bot: " \o backend.text),
              prompt |-> prompt, ret |-> backend.text, raised |-> FALSE]
        ELSE [history |-> h1, prompt |-> prompt, ret |-> Sentinel, raised |-> FALSE]

\* --------------------------------------------------------------- Outliner
\* A text (the transcript, a chunk's page_content) is a sequence of units.
RECURSIVE SumChars(_)
SumChars(text) ==
    IF text = <<>> THEN 0 ELSE Head(text).chars + SumChars(Tail(text))

\* Outliner.num_tokens_from_string: len(encoding.encode(string))
RECURSIVE num_tokens_from_string(_)
num_tokens_from_string(string) ==
    IF string = <<>> THEN 0
    ELSE Head(string).tokens + num_tokens_from_string(Tail(string))

\* The splitter's trimming of the chunk just closed down to the overlap: units
\* are dropped from its front while more than chunk_overlap remains, or while
\* the next unit would still not fit.
RECURSIVE TrimToOverlap(_, _)
TrimToOverlap(current, len) ==
    LET total == SumChars(current)
    IN  IF total > chunk_overlap \/ (total + len > chunk_size /\ total > 0)
        THEN TrimToOverlap(Tail(current), len)
        ELSE current

\* The splitter's greedy merge.  MarkdownTextSplitter is constructed with
\* chunk_size and chunk_overlap and no length_function, so the running size
\* of a chunk is Python len: characters.
RECURSIVE MergeSplits(_, _, _)
MergeSplits(splits, current, docs) ==
    IF splits = <<>>
    THEN IF current = <<>> THEN docs ELSE Append(docs, current)
    ELSE LET d == Head(splits)
         IN  IF SumChars(current) + d.chars > chunk_size /\ current # <<>>
             THEN MergeSplits(Tail(splits),
                              Append(TrimToOverlap(current, d.chars), d),
                              Append(docs, current))
             ELSE MergeSplits(Tail(splits), Append(current, d), docs)

\* Outliner.transcript_splitter (defaults chunk_size=3000, chunk_overlap=200)
transcript_splitter(raw) == MergeSplits(raw, <<>>, <<>>)

\* self.chat(messages).  self.chat is the ChatOllama built in __init__, and
\* class ChatOllama defines no __call__: calling the object raises TypeError
\* before generate_response, and so before the backend, is reached.  client
\* is the ChatOllama's state, which the call leaves as it was.
chat(client, messages) ==
    [raised |-> TRUE, exc |-> "TypeError", content |-> "", client |-> client]

\* Outliner.transcript2insights: the prompt is built, self.chat is called,
\* result.content is returned.
transcript2insights(client, transcript) ==
    LET result == chat(client, [kind |-> "insights", arg |-> transcript])
    IN  [raised |-> result.raised, exc |-> result.exc,
         content |-> result.content, client |-> result.client]

\* The for loop of create_essay_insights from chunk i on.  chatCalls counts
\* the calls of self.chat attempted, stdout the lines printed.
RECURSIVE essay_loop(_, _, _, _, _, _, _)
essay_loop(client, transcript_chunks, i, response, verbose, chatCalls, stdout) ==
    IF i > Len(transcript_chunks)
    THEN [raised |-> FALSE, exc |-> "", response |-> response, client |-> client,
          chatCalls |-> chatCalls, stdout |-> stdout]
    ELSE LET r == transcript2insights(client, transcript_chunks[i])
         IN  IF r.raised
             THEN [raised |-> TRUE, exc |-> r.exc, response |-> response,
                   client |-> r.client,
                   chatCalls |-> Append(chatCalls, "insights"), stdout |-> stdout]
             ELSE essay_loop(r.client, transcript_chunks, i + 1,
                             JoinStr("\n", <<response, r.content>>), verbose,
                             Append(chatCalls, "insights"),
                             IF verbose THEN Append(stdout, "Insights extracted")
                                        ELSE stdout)

\* A bug the loop could have: the extraction sits under `if verbose:`.
create_essay_insights_UnderVerbose(client, transcript_chunks, verbose) ==
    IF verbose
    THEN essay_loop(client, transcript_chunks, 1, "", verbose, <<>>, <<>>)
    ELSE [raised |-> FALSE, exc |-> "", response |-> "", client |-> client,
          chatCalls |-> <<>>, stdout |-> <<>>]

\* Outliner.create_essay_insights
create_essay_insights(client, transcript_chunks, verbose) ==
    essay_loop(client, transcript_chunks, 1, "", verbose, <<>>, <<>>)

\* Outliner.create_blueprint
create_blueprint(client, statements, verbose) ==
    LET outline == chat(client, [kind |-> "blueprint", arg |-> statements])
    IN  IF outline.raised
        THEN [raised |-> TRUE, exc |-> outline.exc, content |-> "",
              client |-> outline.client, stdout |-> <<>>]
        ELSE [raised |-> FALSE, exc |-> "", content |-> outline.content,
              client |-> outline.client,
              stdout |-> IF verbose THEN <<"Essay outline">> ELSE <<>>]

\* Outliner.full_transcript2outline_json.  There is no check of the
\* transcript or of the chunk sequence, and no try: an exception of a step
\* ends the run.
full_transcript2outline_json(client, raw, verbose) ==
    LET transcript_docs == transcript_splitter(raw)
        essay == create_essay_insights(client, transcript_docs, verbose)
        out1 == <<"Chunking transcript...", "Extracting key insights...">> \o essay.stdout
    IN  IF essay.raised
        THEN [status |-> "raised", exc |-> essay.exc, docs |-> transcript_docs,
              essay |-> [raised |-> TRUE, response |-> essay.response],
              blueprint |-> "", client |-> essay.client,
              chatCalls |-> essay.chatCalls, stdout |-> out1]
        ELSE LET bp == create_blueprint(essay.client, essay.response, verbose)
                 out2 == Append(out1, "Creating essay outline...") \o bp.stdout
             IN  IF bp.raised
                 THEN [status |-> "raised", exc |-> bp.exc, docs |-> transcript_docs,
                       essay |-> [raised |-> FALSE, response |-> essay.response],
                       blueprint |-> "", client |-> bp.client,
                       chatCalls |-> Append(essay.chatCalls, "blueprint"),
                       stdout |-> out2]
                 ELSE [status |-> "returned", exc |-> "", docs |-> transcript_docs,
                       essay |-> [raised |-> FALSE, response |-> essay.response],
                       blueprint |-> bp.content, client |-> bp.client,
                       chatCalls |-> Append(essay.chatCalls, "blueprint"),
                       stdout |-> IF verbose THEN Append(out2, "timings") ELSE out2]

\* ------------------------------------------------------------ state machine
NoCall == [mode |-> "none", user |-> "", prompt |-> "", ret |-> "",
           raised |-> FALSE, before |-> <<>>]
NoRun == [status |-> "none"]

\* After Outliner.__init__: the transcript file is read, the client is new.
Init ==
    /\ conversation_history = <<>>
    /\ requests = <<>>
    /\ ncalls = 0
    /\ lastCall = NoCall
    /\ raw_transcript \in Transcripts
    /\ run = NoRun

\* One call of chat.generate_response(user_input) on the Outliner's client.
GenerateResponse ==
    /\ ncalls < MaxCalls
    /\ \E user_input \in Inputs, backend \in Backends :
         LET r == generate_response(conversation_history, user_input, backend)
         IN  /\ conversation_history' = r.history
             /\ requests' = Append(requests, r.prompt)
             /\ lastCall' = [mode |-> backend.mode, user |-> user_input,
                             prompt |-> r.prompt, ret |-> r.ret,
                             raised |-> r.raised, before |-> conversation_history]
    /\ ncalls' = ncalls + 1
    /\ UNCHANGED <<raw_transcript, run>>

\* One call of full_transcript2outline_json(verbose).
RunPipeline ==
    /\ \E verbose \in BOOLEAN :
         LET client == [history |-> conversation_history, requests |-> requests]
             r == full_transcript2outline_json(client, raw_transcript, verbose)
         IN  /\ run' = [status |-> r.status, exc |-> r.exc, verbose |-> verbose,
                        docs |-> r.docs, essay |-> r.essay,
                        blueprint |-> r.blueprint, chatCalls |-> r.chatCalls,
                        stdout |-> r.stdout,
                        historyBefore |-> conversation_history,
                        requestsBefore |-> requests,
                        historyAfter |-> r.client.history,
                        requestsAfter |-> r.client.requests]
             /\ conversation_history' = r.client.history
             /\ requests' = r.client.requests
    /\ UNCHANGED <<ncalls, lastCall, raw_transcript>>

Next == GenerateResponse \/ RunPipeline

Spec == Init /\ [][Next]_vars

\* ------------------------------------------------------------------ claims
IsUserEntry(e) == \E u \in Inputs : e = "User: " \o u
IsBotEntry(e) == \E t \in Texts \cup {Sentinel} : e = "Bot: " \o t
IsPrefix(s, t) == Len(s) <= Len(t) /\ SubSeq(t, 1, Len(s)) = s
CallFailed == lastCall.mode \in {"raise", "malformed"}
UserTurn == "User: " \o lastCall.user
RunDone == run.status # "none"
NChunks == Len(run.docs)
InsightCalls == {i \in DOMAIN run.chatCalls : run.chatCalls[i] = "insights"}
\* backend requests issued during the latest pipeline run
RunRequests == Len(run.requestsAfter) - Len(run.requestsBefore)

\* C1: a generate_response call whose backend raised (or returned a malformed
\* result) returns the sentinel string and lets no exception out, at whatever
\* point of a sequence of calls it is made.
C1_SentinelOnFailure ==
    CallFailed => lastCall.ret = Sentinel /\ ~lastCall.raised

\* A malformed backend result on a later call, after a call that succeeded.
C1_Witness ==
    /\ ncalls >= 2
    /\ lastCall.mode = "malformed"
    /\ lastCall.ret = Sentinel
    /\ \E i \in DOMAIN lastCall.before : IsBotEntry(lastCall.before[i])

C3_TwoChunksBlankLineJoined ==
    (RunDone /\ NChunks = 2) =>
        /\ ~run.essay.raised
        /\ \E t \in Texts : run.essay.response = t \o "\n\n" \o t

\* C4 as stated: a run on an empty transcript, or on an empty chunk sequence,
\* ends in an InputValidation error with no extraction and no synthesis call.
C4_EmptyInputFailsFast ==
    (RunDone /\ (raw_transcript = <<>> \/ run.docs = <<>>)) =>
        /\ run.status = "raised"
        /\ run.exc = "InputValidation"
        /\ run.chatCalls = <<>>
        /\ RunRequests = 0

\* C5 as stated: a run over N >= 1 chunks issues N + 1 backend requests, N
\* extractions in chunk order and then one synthesis, and returns the text
\* of the synthesis request.
C5_NPlusOneRequests ==
    (RunDone /\ NChunks >= 1) =>
        /\ RunRequests = NChunks + 1
        /\ run.chatCalls = [i \in 1..(NChunks + 1) |->
                               IF i <= NChunks THEN "insights" ELSE "blueprint"]
        /\ run.status = "returned"

\* C6 as stated: when the call for a chunk fails during extraction the run
\* does not abort: every chunk is still extracted and synthesis still runs.
C6_FailedChunkDoesNotAbort ==
    (RunDone /\ run.essay.raised) =>
        /\ Cardinality(InsightCalls) = NChunks
        /\ \E i \in DOMAIN run.chatCalls : run.chatCalls[i] = "blueprint"

\* C7 as stated: every chunk the splitter emits counts at most chunk_size
\* tokens (num_tokens_from_string), unless it is one single unit.
C7_ChunkTokensBounded ==
    RunDone =>
        \A i \in DOMAIN run.docs :
            num_tokens_from_string(run.docs[i]) <= chunk_size \/ Len(run.docs[i]) = 1

\* The index in the history of the k-th user turn.
UserIndexes == {i \in DOMAIN conversation_history : IsUserEntry(conversation_history[i])}
KthUser(k) ==
    CHOOSE i \in UserIndexes : Cardinality({j \in UserIndexes : j <= i}) = k

\* The client half of C8: the prompt of call k is the flattened history of
\* calls 1..k-1 followed by the user turn of call k.
C8_ClientPrompts ==
    /\ Len(requests) = ncalls
    /\ Cardinality(UserIndexes) = ncalls
    /\ \A k \in 1..ncalls :
           requests[k] = format_prompt(SubSeq(conversation_history, 1, KthUser(k)))

\* C8 as stated: the client half, and in a pipeline run the synthesis call
\* is sent with a prompt that holds the turns of the extraction calls.
C8_PromptsCarryHistory ==
    /\ C8_ClientPrompts
    /\ (RunDone /\ NChunks >= 1) =>
           /\ RunRequests >= 1
           /\ Len(run.historyAfter) >= Len(run.historyBefore) + NChunks + 1
           /\ IsPrefix(run.historyBefore, run.historyAfter)

\* The shape of the history in every state: it starts with a user turn, a
\* reply turn directly follows the user turn of its call, and there are as
\* many user turns as calls made.
C9_HistoryShape ==
    /\ \A i \in DOMAIN conversation_history :
           IsUserEntry(conversation_history[i]) \/ IsBotEntry(conversation_history[i])
    /\ conversation_history # <<>> => IsUserEntry(conversation_history[1])
    /\ \A i \in DOMAIN conversation_history :
           IsBotEntry(conversation_history[i]) =>
               i > 1 /\ IsUserEntry(conversation_history[i - 1])
    /\ lastCall.mode = "ok" =>
           /\ Len(conversation_history) >= 2
           /\ conversation_history[Len(conversation_history)] = "Bot: " \o lastCall.ret
           /\ conversation_history[Len(conversation_history) - 1] = UserTurn
    /\ Cardinality(UserIndexes) = ncalls

\* C9: the history is append-only: the history of a state is a prefix of the
\* history of every later state, and in every state it starts with a user
\* turn, every reply turn directly follows the user turn of its call, and
\* there are as many user turns as calls made, failed calls included.
C9_AppendOnly ==
    /\ []C9_HistoryShape
    /\ [][IsPrefix(conversation_history, conversation_history')]_vars

\* A failed call followed by a successful one: user turn, user turn, reply.
C9_Witness ==
    /\ ncalls >= 2
    /\ \E i \in DOMAIN conversation_history :
           /\ i + 2 <= Len(conversation_history)
           /\ IsUserEntry(conversation_history[i])
           /\ IsUserEntry(conversation_history[i + 1])
           /\ IsBotEntry(conversation_history[i + 2])

====
